---- MODULE Spec2Model ----
(***************************************************************************)
(* LiDAR visualizer backend: the point-cloud core (loader.py, processor.py)*)
(* and the request handlers of routes.py that drive it.                    *)
(*                                                                         *)
(* Numbers.  numpy's floating-point values are modelled as exact rationals *)
(* <<num, den>> in lowest terms with den > 0, so rounding error is not     *)
(* part of the model.  An Optional value is <<>> (Python's None) or <<v>>. *)
(* An array is a sequence; a call that can raise returns a record whose    *)
(* field st is "ok" or "raise".                                            *)
(***************************************************************************)
EXTENDS Integers, Sequences, FiniteSets, TLC

VARIABLES
    inp,            \* the input chosen by the caller: a pending core call, or the user's file
    ret,            \* <<>> before the call returns, then <<outcome>>
    file_registry,  \* routes.py file_registry: file_id -> entry
    uploads,        \* the files present in UPLOAD_DIR: stored path -> file content
    response,       \* the last HTTP response sent by a handler, <<>> before the first
    random_state    \* numpy's global generator: the times it was advanced, counted to MaxDraws

vars == <<inp, ret, file_registry, uploads, response, random_state>>

(***************************************************************************)
(* Bounds of the model.                                                    *)
(***************************************************************************)
MaxPoints == 3
MaxCoord == 1
MaxFilePoints == 2
MaxFiles == 1
MaxSteps == 2
MaxDraws == 1

(***************************************************************************)
(* Optional values and outcomes.                                           *)
(***************************************************************************)
None == <<>>
Some(v) == <<v>>
IsNone(o) == o = <<>>
Val(o) == o[1]

Raise(e) == [st |-> "raise", exc |-> e]

(***************************************************************************)
(* Rational arithmetic standing for numpy's float arithmetic.              *)
(***************************************************************************)
Abs(n) == IF n < 0 THEN -n ELSE n

RECURSIVE GCD(_, _)
GCD(a, b) == IF b = 0 THEN a ELSE GCD(b, a % b)

Rat(n, d) ==
    LET s == IF d < 0 THEN -1 ELSE 1
        g == GCD(Abs(n), Abs(d))
    IN  <<(s * n) \div g, (s * d) \div g>>

R(n) == <<n, 1>>
RAdd(a, b) == Rat(a[1] * b[2] + b[1] * a[2], a[2] * b[2])
RSub(a, b) == Rat(a[1] * b[2] - b[1] * a[2], a[2] * b[2])
RMul(a, b) == Rat(a[1] * b[1], a[2] * b[2])
RDiv(a, b) == Rat(a[1] * b[2], a[2] * b[1])
RLt(a, b) == a[1] * b[2] < b[1] * a[2]
RLe(a, b) == a[1] * b[2] <= b[1] * a[2]
RGe(a, b) == RLe(b, a)

\* Python int(x) of a float: truncation toward zero
IntOf(a) == IF a[1] >= 0 THEN a[1] \div a[2] ELSE -((-a[1]) \div a[2])

RECURSIVE RMinOf(_)
RMinOf(s) ==
    IF Len(s) = 1 THEN s[1]
    ELSE LET m == RMinOf(Tail(s)) IN IF RLe(s[1], m) THEN s[1] ELSE m

RECURSIVE RMaxOf(_)
RMaxOf(s) ==
    IF Len(s) = 1 THEN s[1]
    ELSE LET m == RMaxOf(Tail(s)) IN IF RGe(s[1], m) THEN s[1] ELSE m

Column(points, axis) == [k \in 1..Len(points) |-> points[k][axis]]

(***************************************************************************)
(* numpy index helpers.                                                    *)
(***************************************************************************)
\* arr[indices] with 0-based integer indices
Gather(arr, indices) == [k \in 1..Len(indices) |-> arr[indices[k] + 1]]

RECURSIVE Insert(_, _)
Insert(x, s) ==
    IF s = <<>> THEN <<x>>
    ELSE IF x <= s[1] THEN <<x>> \o s
    ELSE <<s[1]>> \o Insert(x, Tail(s))

\* a variant that leaves the indices in the order drawn
SortAscAsDrawn(s) == s

RECURSIVE SortAsc(_)
SortAsc(s) == IF s = <<>> THEN <<>> ELSE Insert(s[1], SortAsc(Tail(s)))

\* np.random.choice(n, size=size, replace=False): every outcome the generator can give
RandomChoice(n, size) ==
    IF size < 0 THEN {Raise("ValueError")}
    ELSE IF n <= 0 /\ size # 0 THEN {Raise("ValueError")}
    ELSE IF size > n THEN {Raise("ValueError")}
    ELSE {[st |-> "ok", indices |-> s] :
            s \in {t \in [1..size -> 0..(n - 1)] :
                     \A i, j \in 1..size : i # j => t[i] # t[j]}}

\* the times np.random.choice(n, size=size, replace=False) advances the global generator:
\* a call that does not raise permutes range(n), which draws when n is 2 or more
ChoiceDraws(n, size) ==
    IF RandomChoice(n, size) # {Raise("ValueError")} /\ n >= 2 THEN 1 ELSE 0

(***************************************************************************)
(* processor.py: PointCloudProcessor.                                      *)
(***************************************************************************)
\* lines 35-36: the sampled indices, sorted ascending
SampleIndices(n_points, n_sample) ==
    {IF c.st = "ok" THEN [st |-> "ok", indices |-> SortAsc(c.indices)] ELSE c :
        c \in RandomChoice(n_points, n_sample)}

\* downsample_random drawing the indices of the colours a second time
DownsampleRandomColorsRedrawn(points, colors, sample_rate) ==
    IF RGe(sample_rate, R(1)) THEN {[st |-> "ok", points |-> points, colors |-> colors]}
    ELSE LET n_points == Len(points)
             n_sample == IntOf(RMul(R(n_points), sample_rate))
         IN  {IF c.st = "raise" THEN c
              ELSE [st |-> "ok",
                    points |-> Gather(points, c.indices),
                    colors |-> IF IsNone(colors) THEN None
                               ELSE Some(Gather(Val(colors), d.indices))] :
                c \in SampleIndices(n_points, n_sample),
                d \in SampleIndices(n_points, n_sample)}

\* downsample_random without the early return of lines 28-29
DownsampleRandomNoShortcut(points, colors, sample_rate) ==
    LET n_points == Len(points)
        n_sample == IntOf(RMul(R(n_points), sample_rate))
    IN  {IF c.st = "raise" THEN c
         ELSE [st |-> "ok",
               points |-> Gather(points, c.indices),
               colors |-> IF IsNone(colors) THEN None
                          ELSE Some(Gather(Val(colors), c.indices))] :
           c \in SampleIndices(n_points, n_sample)}

\* downsample_random(points, colors, sample_rate): the set of possible outcomes
DownsampleRandom(points, colors, sample_rate) ==
    IF RGe(sample_rate, R(1)) THEN {[st |-> "ok", points |-> points, colors |-> colors]}
    ELSE LET n_points == Len(points)
             n_sample == IntOf(RMul(R(n_points), sample_rate))
         IN  {IF c.st = "raise" THEN c
              ELSE [st |-> "ok",
                    points |-> Gather(points, c.indices),
                    colors |-> IF IsNone(colors) THEN None
                               ELSE Some(Gather(Val(colors), c.indices))] :
                c \in SampleIndices(n_points, n_sample)}

\* the times one call of downsample_random advances the global generator (line 35)
DownsampleRandomDraws(points, sample_rate) ==
    IF RGe(sample_rate, R(1)) THEN 0
    ELSE ChoiceDraws(Len(points), IntOf(RMul(R(Len(points)), sample_rate)))

\* limit_points delegating to the sampler: lines 64-65
LimitBySampling(points, max_points) ==
    IF Len(points) = 0 THEN None   \* max_points / 0 raises ZeroDivisionError
    ELSE Some(Rat(max_points, Len(points)))

\* limit_points with the guard of line 61 written `<`
LimitPointsStrictGuard(points, colors, max_points) ==
    IF Len(points) < max_points
    THEN {[st |-> "ok", points |-> points, colors |-> colors]}
    ELSE IF IsNone(LimitBySampling(points, max_points)) THEN {Raise("ZeroDivisionError")}
    ELSE DownsampleRandom(points, colors, Val(LimitBySampling(points, max_points)))

\* limit_points computing the rate of line 64 from max_points + 1
LimitPointsOffByOne(points, colors, max_points) ==
    IF Len(points) <= max_points
    THEN {[st |-> "ok", points |-> points, colors |-> colors]}
    ELSE IF Len(points) = 0 THEN {Raise("ZeroDivisionError")}
    ELSE DownsampleRandom(points, colors, Rat(max_points + 1, Len(points)))

\* limit_points(points, colors, max_points): the set of possible outcomes
LimitPoints(points, colors, max_points) ==
    IF Len(points) <= max_points
    THEN {[st |-> "ok", points |-> points, colors |-> colors]}
    ELSE IF IsNone(LimitBySampling(points, max_points)) THEN {Raise("ZeroDivisionError")}
    ELSE DownsampleRandom(points, colors, Val(LimitBySampling(points, max_points)))

\* the times one call of limit_points advances the global generator
LimitPointsDraws(points, max_points) ==
    IF Len(points) <= max_points THEN 0
    ELSE IF IsNone(LimitBySampling(points, max_points)) THEN 0
    ELSE DownsampleRandomDraws(points, Val(LimitBySampling(points, max_points)))

Half == Rat(1, 2)
Gray == <<Half, Half, Half>>
T033 == Rat(33, 100)
T067 == Rat(67, 100)
W034 == Rat(34, 100)

\* the gradient with the middle segment divided by 0.33 instead of 0.34
HeightColorNarrowMiddle(t) ==
    IF RLt(t, T033) THEN <<R(0), RDiv(t, T033), R(1)>>
    ELSE IF RLt(t, T067)
         THEN <<RDiv(RSub(t, T033), T033), R(1), RSub(R(1), RDiv(RSub(t, T033), T033))>>
    ELSE <<R(1), RSub(R(1), RDiv(RSub(t, T067), T033)), R(0)>>

\* lines 89-109: the colour of one point at normalized height t
HeightColor(t) ==
    IF RLt(t, T033) THEN <<R(0), RDiv(t, T033), R(1)>>
    ELSE IF RLt(t, T067)
         THEN <<RDiv(RSub(t, T033), W034), R(1), RSub(R(1), RDiv(RSub(t, T033), W034))>>
    ELSE <<R(1), RSub(R(1), RDiv(RSub(t, T067), T033)), R(0)>>

\* generate_height_colors(points)
GenerateHeightColors(points) ==
    IF Len(points) = 0 THEN Raise("ValueError")   \* np.min of a zero-size array
    ELSE LET z_coords == Column(points, 3)
             z_min == RMinOf(z_coords)
             z_max == RMaxOf(z_coords)
         IN  IF z_max = z_min
             THEN [st |-> "ok", colors |-> [k \in 1..Len(points) |-> Gray]]
             ELSE [st |-> "ok",
                   colors |-> [k \in 1..Len(points) |->
                       HeightColor(RDiv(RSub(z_coords[k], z_min), RSub(z_max, z_min)))]]

\* generate_intensity_colors(intensity)
\* a variant that normalises by the largest value instead of the range
GenerateIntensityColorsByMax(intensity) ==
    IF Len(intensity) = 0 THEN [st |-> "ok", colors |-> <<>>]
    ELSE LET i_min == RMinOf(intensity)
             i_max == RMaxOf(intensity)
         IN  IF i_max = i_min
             THEN [st |-> "ok", colors |-> [k \in 1..Len(intensity) |-> Gray]]
             ELSE [st |-> "ok",
                   colors |-> [k \in 1..Len(intensity) |->
                       LET v == RDiv(RSub(intensity[k], i_min), i_max)
                       IN  <<v, v, v>>]]

GenerateIntensityColors(intensity) ==
    IF Len(intensity) = 0 THEN [st |-> "ok", colors |-> <<>>]
    ELSE LET i_min == RMinOf(intensity)
             i_max == RMaxOf(intensity)
         IN  IF i_max = i_min
             THEN [st |-> "ok", colors |-> [k \in 1..Len(intensity) |-> Gray]]
             ELSE [st |-> "ok",
                   colors |-> [k \in 1..Len(intensity) |->
                       LET v == RDiv(RSub(intensity[k], i_min), RSub(i_max, i_min))
                       IN  <<v, v, v>>]]

NaN == <<0, 0>>

RECURSIVE RSum(_)
RSum(s) == IF s = <<>> THEN R(0) ELSE RAdd(s[1], RSum(Tail(s)))

\* a variant that centres on the middle of the range instead of the mean
MeanOfMidrange(points) ==
    IF Len(points) = 0 THEN <<NaN, NaN, NaN>>
    ELSE [a \in 1..3 |->
            RDiv(RAdd(RMinOf(Column(points, a)), RMaxOf(Column(points, a))), R(2))]

\* np.mean(points, axis=0): NaN on every axis for a zero-size array (a warning, no exception)
MeanOf(points) ==
    IF Len(points) = 0 THEN <<NaN, NaN, NaN>>
    ELSE [a \in 1..3 |-> RDiv(RSum(Column(points, a)), R(Len(points)))]

\* a variant that computes the centre but leaves the points where they are
CenterPointsUnmoved(points) == [points |-> points, center |-> MeanOf(points)]

\* center_points(points)
CenterPoints(points) ==
    LET center == MeanOf(points)
    IN  [points |-> [k \in 1..Len(points) |-> [a \in 1..3 |-> RSub(points[k][a], center[a])]],
         center |-> center]

\* a variant with the scale factor upside down
NormalizeScaleInverted(points, target_size) ==
    IF Len(points) = 0 THEN Raise("ValueError")
    ELSE LET extent(a) == RSub(RMaxOf(Column(points, a)), RMinOf(Column(points, a)))
             current_size == RMaxOf(<<extent(1), extent(2), extent(3)>>)
         IN  IF current_size = R(0)
             THEN [st |-> "ok", points |-> points, scale_factor |-> R(1)]
             ELSE LET scale_factor == RDiv(current_size, target_size)
                  IN  [st |-> "ok",
                       points |-> [k \in 1..Len(points) |->
                                     [a \in 1..3 |-> RMul(points[k][a], scale_factor)]],
                       scale_factor |-> scale_factor]

\* normalize_scale(points, target_size)
NormalizeScale(points, target_size) ==
    IF Len(points) = 0 THEN Raise("ValueError")   \* np.min(axis=0) of a zero-size array
    ELSE LET extent(a) == RSub(RMaxOf(Column(points, a)), RMinOf(Column(points, a)))
             current_size == RMaxOf(<<extent(1), extent(2), extent(3)>>)
         IN  IF current_size = R(0)
             THEN [st |-> "ok", points |-> points, scale_factor |-> R(1)]
             ELSE LET scale_factor == RDiv(target_size, current_size)
                  IN  [st |-> "ok",
                       points |-> [k \in 1..Len(points) |->
                                     [a \in 1..3 |-> RMul(points[k][a], scale_factor)]],
                       scale_factor |-> scale_factor]

(***************************************************************************)
(* loader.py: LiDARLoader.  A file's content is a record                   *)
(*   ext      the suffix of its name                                       *)
(*   read     what laspy.read does with it: "ok", or an exception whose    *)
(*            text names neither lazrs nor compression ("corrupt") or      *)
(*            names one of them ("lazrs_error")                            *)
(*   pts      the decoded point records                                    *)
(*   dims     the per-point attributes the decoded object exposes          *)
(*   broken   the per-point attributes whose read raises                   *)
(*   hdr      the header accessors that resolve                            *)
(*   faulty   the header accessors that raise something other than         *)
(*            AttributeError                                               *)
(***************************************************************************)
\* os.path.getsize(file_path), in records: the header counts as one
FileSize(content) == Len(content.pts) + 1

\* lines 70-82: the message chosen for a failed read
ErrorMsg(file_extension, read) ==
    IF file_extension = ".laz"
    THEN IF read # "lazrs_error" THEN "LAZ file loading failed"
         ELSE "LAZ compression error"
    ELSE "LAS file format error"

\* a variant that hands back an empty cloud when the read fails
LoadFileLenient(disk, file_path) ==
    IF file_path \notin DOMAIN disk THEN Raise("FileNotFoundError") @@ [reads |-> 0]
    ELSE IF disk[file_path].read = "ok" THEN [st |-> "ok", las |-> disk[file_path], reads |-> 1]
    ELSE [st |-> "ok", las |-> [disk[file_path] EXCEPT !.read = "ok", !.pts = <<>>],
          reads |-> 1]

\* load_file(file_path) on the files of disk; reads counts the calls of laspy.read
LoadFile(disk, file_path) ==
    IF file_path \notin DOMAIN disk THEN Raise("FileNotFoundError") @@ [reads |-> 0]
    ELSE LET content == disk[file_path]
             file_extension == content.ext
             file_size == FileSize(content)
         IN  IF content.read = "ok" THEN [st |-> "ok", las |-> content, reads |-> 1]
             ELSE Raise("ValueError")
                    @@ [error_msg |-> ErrorMsg(file_extension, content.read),
                        file_extension |-> file_extension,
                        file_size_bytes |-> file_size,
                        reads |-> 1]

\* extract_points(las)
ExtractPoints(las) ==
    [k \in 1..Len(las.pts) |-> <<R(las.pts[k].x), R(las.pts[k].y), R(las.pts[k].z)>>]

ChannelMax == 65535

Channels == <<"red", "green", "blue">>

\* lines 113-118: the body of the try block of extract_colors
ReadColors(las) ==
    IF \E c \in 1..3 : /\ Channels[c] \in las.broken
                       /\ \A b \in 1..(c - 1) : Channels[b] \in las.dims
    THEN Raise("Exception")
    ELSE IF \A c \in 1..3 : Channels[c] \in las.dims
    THEN [st |-> "ok",
          colors |-> Some([k \in 1..Len(las.pts) |->
                             [c \in 1..3 |-> Rat(las.pts[k][Channels[c]], ChannelMax)]])]
    ELSE [st |-> "ok", colors |-> None]

\* a variant that stacks whichever channels are present
ExtractColorsPartial(las) ==
    LET present == SelectSeq(Channels, LAMBDA c : c \in las.dims /\ c \notin las.broken)
    IN  IF present = <<>> THEN None
        ELSE Some([k \in 1..Len(las.pts) |->
                     [c \in 1..Len(present) |-> Rat(las.pts[k][present[c]], ChannelMax)]])

\* extract_colors(las): an exception of the read is logged and answered with None
ExtractColors(las) ==
    LET read == ReadColors(las)
    IN  IF read.st = "raise" THEN None ELSE read.colors

\* lines 136-137: the body of the try block of extract_intensity
ReadIntensity(las) ==
    IF "intensity" \in las.broken THEN Raise("Exception")
    ELSE IF "intensity" \in las.dims
    THEN [st |-> "ok", intensity |-> Some([k \in 1..Len(las.pts) |-> R(las.pts[k].intensity)])]
    ELSE [st |-> "ok", intensity |-> None]

\* extract_intensity(las)
ExtractIntensity(las) ==
    LET read == ReadIntensity(las)
    IN  IF read.st = "raise" THEN None ELSE read.intensity

\* calculate_bounds folding the minimum and maximum from 0.0
CalculateBoundsZeroSeed(points) ==
    LET col(a) == <<R(0)>> \o Column(points, a)
    IN  [min_x |-> RMinOf(col(1)), max_x |-> RMaxOf(col(1)),
         min_y |-> RMinOf(col(2)), max_y |-> RMaxOf(col(2)),
         min_z |-> RMinOf(col(3)), max_z |-> RMaxOf(col(3))]

\* calculate_bounds(points)
CalculateBounds(points) ==
    IF Len(points) = 0
    THEN [min_x |-> R(0), max_x |-> R(0), min_y |-> R(0),
          max_y |-> R(0), min_z |-> R(0), max_z |-> R(0)]
    ELSE [min_x |-> RMinOf(Column(points, 1)), max_x |-> RMaxOf(Column(points, 1)),
          min_y |-> RMinOf(Column(points, 2)), max_y |-> RMaxOf(Column(points, 2)),
          min_z |-> RMinOf(Column(points, 3)), max_z |-> RMaxOf(Column(points, 3))]


\* what evaluating a header accessor does
Probe(las, accessor) ==
    IF accessor \in las.faulty THEN "Exception"
    ELSE IF accessor \in las.hdr THEN "ok"
    ELSE "AttributeError"

\* a variant that evaluates the legacy accessor whatever the first one did
ResolveProbingBoth(las, first, second) ==
    [by |-> IF Probe(las, first) = "ok" THEN first
            ELSE IF Probe(las, first) = "AttributeError" /\ Probe(las, second) = "ok"
            THEN second
            ELSE "none",
     probed |-> <<first, second>>]

\* try first, on AttributeError try second: the accessor that answered ("none" when the
\* chain failed) and the accessors evaluated, in order
Resolve(las, first, second) ==
    IF Probe(las, first) = "ok" THEN [by |-> first, probed |-> <<first>>]
    ELSE IF Probe(las, first) # "AttributeError" THEN [by |-> "none", probed |-> <<first>>]
    ELSE IF Probe(las, second) = "ok" THEN [by |-> second, probed |-> <<first, second>>]
    ELSE [by |-> "none", probed |-> <<first, second>>]

\* get_metadata(file_path, las); filename is the name of the stored file; probed lists the
\* header accessors evaluated during the call
GetMetadata(file_path, las) ==
    LET version == Resolve(las, "major_version", "version.major")
        format == Resolve(las, "point_format.id", "point_data_format_id")
    IN
    IF version.by = "none"                            \* lines 206-212, re-raised at 259
    THEN Raise("ValueError") @@ [probed |-> version.probed]
    ELSE IF format.by = "none"                        \* lines 221-227, re-raised at 259
    THEN Raise("ValueError") @@ [probed |-> version.probed \o format.probed]
    ELSE [st |-> "ok",
          probed |-> version.probed \o format.probed,
          metadata |-> [filename |-> file_path,
                        point_count |-> Len(las.pts),
                        bounds |-> CalculateBounds(ExtractPoints(las)),
                        has_colors |-> ~IsNone(ExtractColors(las)),
                        has_intensity |-> ~IsNone(ExtractIntensity(las)),
                        file_size |-> FileSize(las),
                        las_version |-> las.las_version,
                        point_data_format |-> las.point_format_id]]

(***************************************************************************)
(* diagnostics.py: LiDARDiagnostics.  A report is a record; the empty      *)
(* dictionary is <<>>.                                                     *)
(***************************************************************************)
\* the probes of inspect_file_header, in the order they are tried
VersionMethods ==
    <<"major_version", "minor_version", "version.major", "version.minor",
      "version_major", "version_minor">>
FormatMethods == <<"point_format.id", "point_data_format_id", "point_format">>

\* the probes written as getattr(header, name, None)
Defaulted == {"version_major", "version_minor", "point_data_format_id"}

\* the header accessor a probe evaluates
AccessorOf(method) ==
    CASE method = "minor_version" -> "major_version"
      [] method = "version.minor" -> "version.major"
      [] method = "point_format" -> "point_format.id"
      [] OTHER -> method

\* lines 56-66 and 79-89: the report entry of one probe
MethodEntry(las, method) ==
    LET probe == Probe(las, AccessorOf(method))
    IN  IF probe = "ok" THEN [value |-> Some(AccessorOf(method)), available |-> TRUE]
        ELSE IF probe = "AttributeError"
        THEN IF method \in Defaulted THEN [value |-> None, available |-> TRUE]
             ELSE [value |-> None, available |-> FALSE]
        ELSE [value |-> None, available |-> FALSE, error |-> probe]

MethodEntries(las, methods) ==
    [m \in {methods[k] : k \in 1..Len(methods)} |-> MethodEntry(las, m)]

\* validate_laz_support()
ValidateLazSupport(lazrs_installed) ==
    [lazrs_available |-> lazrs_installed,
     laz_read_capable |-> lazrs_installed,
     compression_backends |-> IF lazrs_installed THEN <<"lazrs">> ELSE <<>>]

\* a variant whose probes are not guarded: a failing accessor ends the inspection
InspectFileHeaderUnguarded(disk, file_path, lazrs_installed) ==
    IF file_path \notin DOMAIN disk THEN [st |-> "ok", report |-> [error |-> "File not found"]]
    ELSE IF disk[file_path].read # "ok" THEN Raise("Exception")
    ELSE IF \E k \in 1..4 : Probe(disk[file_path], AccessorOf(VersionMethods[k])) # "ok"
    THEN Raise("AttributeError")
    ELSE [st |-> "ok",
          report |-> [status |-> "success",
                      version_info |-> MethodEntries(disk[file_path], VersionMethods),
                      point_format_info |-> MethodEntries(disk[file_path], FormatMethods)]]

\* inspect_file_header(file_path)
InspectFileHeader(disk, file_path, lazrs_installed) ==
    IF file_path \notin DOMAIN disk THEN [st |-> "ok", report |-> [error |-> "File not found"]]
    ELSE LET las == disk[file_path]
             file_info == [file_extension |-> las.ext, file_size_bytes |-> FileSize(las)]
         IN  IF las.read # "ok"
             THEN [st |-> "ok",
                   report |-> [status |-> "error", file_info |-> file_info,
                               error_type |-> las.read]]
             ELSE [st |-> "ok",
                   report |-> [status |-> "success",
                               file_info |-> file_info,
                               version_info |-> MethodEntries(las, VersionMethods),
                               point_format_info |-> MethodEntries(las, FormatMethods),
                               point_info |-> [point_count |-> Len(las.pts),
                                               has_points |-> Len(las.pts) > 0],
                               compression_info |-> [file_compressed |-> las.ext = ".laz",
                                                     lazrs_available |-> TRUE],
                               library_info |-> [lazrs_available |-> lazrs_installed]]]

\* lines 226-247: the texts looked for in the error message, in the order of the tests
Keywords == <<"version_major", "point_data_format_id", "laz", "zero-size array">>

\* diagnose_upload_error(file_path, error)
DiagnoseUploadError(disk, file_path, error, lazrs_installed) ==
    LET inspected == InspectFileHeader(disk, file_path, lazrs_installed)
        file_analysis == IF file_path \notin DOMAIN disk THEN <<>>
                         ELSE IF inspected.st = "raise"
                         THEN [error |-> "Could not inspect file"]
                         ELSE inspected.report
    IN  [st |-> "ok",
         report |-> [error_summary |-> [type |-> error.type, file |-> file_path],
                     file_analysis |-> file_analysis,
                     system_info |-> ValidateLazSupport(lazrs_installed),
                     suggested_solutions |->
                         SelectSeq(Keywords, LAMBDA k : k \in error.mentions)]]

(***************************************************************************)
(* routes.py: the points pipeline of get_point_data, after the registry    *)
(* lookup.  Each operator gives the set of outcomes the random draws allow.*)
(***************************************************************************)
\* lines 191: `if downsample and downsample < 1.0`
Downsampling(downsample) ==
    ~IsNone(downsample) /\ Val(downsample) # R(0) /\ RLt(Val(downsample), R(1))

\* a variant that colours from every intensity of the file when nothing was downsampled
SampledIntensityUncut(intensity, n_points, downsample) ==
    IF Downsampling(downsample)
    THEN LET n_original == IntOf(RDiv(R(n_points), Val(downsample)))
         IN  {IF c.st = "raise" THEN c
              ELSE IF \E k \in 1..Len(c.indices) : c.indices[k] >= Len(intensity)
                   THEN Raise("IndexError")
              ELSE [st |-> "ok", sampled_intensity |-> Gather(intensity, c.indices)] :
                c \in RandomChoice(n_original, n_points)}
    ELSE {[st |-> "ok", sampled_intensity |-> intensity]}

\* lines 207-214: the intensity values used for the colours
SampledIntensity(intensity, n_points, downsample) ==
    IF Downsampling(downsample)
    THEN LET n_original == IntOf(RDiv(R(n_points), Val(downsample)))
         IN  {IF c.st = "raise" THEN c
              ELSE IF \E k \in 1..Len(c.indices) : c.indices[k] >= Len(intensity)
                   THEN Raise("IndexError")
              ELSE [st |-> "ok", sampled_intensity |-> Gather(intensity, c.indices)] :
                c \in RandomChoice(n_original, n_points)}
    ELSE {[st |-> "ok",
           sampled_intensity |-> SubSeq(intensity, 1,
               IF n_points < Len(intensity) THEN n_points ELSE Len(intensity))]}

\* a colour outcome together with the intensity values it was computed from
Coloured(c, si) ==
    IF c.st = "raise" THEN c
    ELSE [st |-> "ok", colors |-> c.colors, sampled_intensity |-> si]

\* a variant that refuses a scheme it cannot serve
ApplyColorSchemeStrict(points, original_colors, intensity, color_by, downsample) ==
    IF color_by = "height"
    THEN {Coloured(GenerateHeightColors(points), None)}
    ELSE IF color_by = "intensity" /\ ~IsNone(intensity)
    THEN {IF si.st = "raise" THEN si
          ELSE Coloured(GenerateIntensityColors(si.sampled_intensity),
                        Some(si.sampled_intensity)) :
            si \in SampledIntensity(Val(intensity), Len(points), downsample)}
    ELSE IF color_by = "original" /\ ~IsNone(original_colors)
    THEN {[st |-> "ok", colors |-> Val(original_colors), sampled_intensity |-> None]}
    ELSE {Raise("ValueError")}

\* lines 202-220: the colour scheme
ApplyColorScheme(points, original_colors, intensity, color_by, downsample) ==
    IF color_by = "height"
    THEN {Coloured(GenerateHeightColors(points), None)}
    ELSE IF color_by = "intensity" /\ ~IsNone(intensity)
    THEN {IF si.st = "raise" THEN si
          ELSE Coloured(GenerateIntensityColors(si.sampled_intensity),
                        Some(si.sampled_intensity)) :
            si \in SampledIntensity(Val(intensity), Len(points), downsample)}
    ELSE IF color_by = "original" /\ ~IsNone(original_colors)
    THEN {[st |-> "ok", colors |-> Val(original_colors), sampled_intensity |-> None]}
    ELSE {Coloured(GenerateHeightColors(points), None)}

TargetSize == 10

\* a variant whose body reports the number of points sent as the point count
NormalizeAndPackRecount(points, c, metadata) ==
    LET centered == CenterPoints(points).points
        scaled == NormalizeScale(centered, R(TargetSize))
    IN  IF scaled.st = "raise" THEN scaled
        ELSE [st |-> "ok", points |-> scaled.points, colors |-> Some(c.colors),
              metadata |-> [metadata EXCEPT !.point_count = Len(points)],
              reduced |-> points, sampled_intensity |-> c.sampled_intensity]

\* lines 222-232: centre, rescale and build the body; reduced and sampled_intensity are
\* the handler's locals at that point
NormalizeAndPack(points, c, metadata) ==
    LET centered == CenterPoints(points).points
        scaled == NormalizeScale(centered, R(TargetSize))
    IN  IF scaled.st = "raise" THEN scaled
        ELSE [st |-> "ok", points |-> scaled.points, colors |-> Some(c.colors),
              metadata |-> metadata,
              reduced |-> points, sampled_intensity |-> c.sampled_intensity]

\* lines 186-232
PointData(las, metadata, max_points, color_by, downsample) ==
    LET points0 == ExtractPoints(las)
        colors0 == ExtractColors(las)
        intensity == ExtractIntensity(las)
        S1 == IF Downsampling(downsample)
              THEN DownsampleRandom(points0, colors0, Val(downsample))
              ELSE {[st |-> "ok", points |-> points0, colors |-> colors0]}
        Limit(r1) ==
            IF ~IsNone(max_points) /\ Len(r1.points) > Val(max_points)
            THEN LimitPoints(r1.points, r1.colors, Val(max_points))
            ELSE {r1}
        Color(r2) ==
            {IF c.st = "raise" THEN c ELSE NormalizeAndPack(r2.points, c, metadata) :
                c \in ApplyColorScheme(r2.points, r2.colors, intensity, color_by, downsample)}
    IN  UNION {IF r1.st = "raise" THEN {r1}
               ELSE UNION {IF r2.st = "raise" THEN {r2} ELSE Color(r2) : r2 \in Limit(r1)} :
                 r1 \in S1}

\* the times get_point_data advances the global generator on a loaded file: in
\* downsample_random, in limit_points, and at line 211 when the limiting did not raise;
\* points stands for an array of the length the handler holds at that line
PointDataDraws(las, max_points, color_by, downsample) ==
    LET Cloud(n) == [k \in 1..n |-> k]
        points0 == ExtractPoints(las)
        n_sample == IF Downsampling(downsample)
                    THEN IntOf(RMul(R(Len(points0)), Val(downsample))) ELSE Len(points0)
        limiting == ~IsNone(max_points) /\ n_sample > Val(max_points)
        limit_raises == limiting /\ (n_sample = 0 \/ Val(max_points) < 0)
        n_points == IF limiting /\ ~limit_raises THEN Val(max_points) ELSE n_sample
        resampling == /\ color_by = "intensity" /\ ~IsNone(ExtractIntensity(las))
                      /\ Downsampling(downsample) /\ ~limit_raises
    IN  (IF Downsampling(downsample)
         THEN DownsampleRandomDraws(points0, Val(downsample)) ELSE 0)
        + (IF limiting THEN LimitPointsDraws(Cloud(n_sample), Val(max_points)) ELSE 0)
        + (IF resampling
           THEN ChoiceDraws(IntOf(RDiv(R(n_points), Val(downsample))), n_points) ELSE 0)

(***************************************************************************)
(* Inputs of the core calls.                                               *)
(***************************************************************************)
Arrays(S, maxlen) == UNION {[1..n -> S] : n \in 0..maxlen}

\* positions and colours handed to the reducers
ReducePts == {<<R(c), R(c), R(c)>> : c \in 0..MaxCoord}
ColorVals == {<<R(0), R(0), R(0)>>, <<R(1), R(1), R(1)>>}
OptColors(n) == {None} \cup {Some(c) : c \in [1..n -> ColorVals]}
Rates == {Rat(-1, 2), Rat(-1, 10), R(0), Rat(1, 10), Rat(1, 2), Rat(2, 3), R(1), Rat(3, 2)}
MaxPointsArgs == (-1)..(MaxPoints + 1)

\* positions handed to the height colouring: Z spans the gradient's breakpoints
ZVals == {0, 33, 50, 67, 100} \cup (0..MaxCoord)
HeightPts == {<<R(0), R(0), R(z)>> : z \in ZVals}

\* positions handed to the bounding box: every axis varies
GeomPts ==
    {<<R(x), R(y), R(z)>> : <<x, y, z>> \in
        {t \in ((-MaxCoord)..MaxCoord) \X ((-MaxCoord)..MaxCoord) \X ((-MaxCoord)..MaxCoord) :
            Cardinality({i \in 1..3 : t[i] # 0}) <= 1}}

CloudInputs ==
    {<<p, c>> \in Arrays(ReducePts, MaxPoints) \X (UNION {OptColors(n) : n \in 0..MaxPoints}) :
        IsNone(c) \/ Len(Val(c)) = Len(p)}

DownsampleInputs ==
    {[op |-> "downsample_random", points |-> pc[1], colors |-> pc[2], sample_rate |-> r] :
        pc \in CloudInputs, r \in Rates}

LimitInputs ==
    {[op |-> "limit_points", points |-> pc[1], colors |-> pc[2], max_points |-> m] :
        pc \in CloudInputs, m \in MaxPointsArgs}

HeightInputs ==
    {[op |-> "generate_height_colors", points |-> p] : p \in Arrays(HeightPts, MaxPoints)}

BoundsInputs ==
    {[op |-> "calculate_bounds", points |-> p] : p \in Arrays(GeomPts, MaxPoints)}

IntensityVals == 0..(MaxCoord + 1)

IntensityInputs ==
    {[op |-> "generate_intensity_colors", intensity |-> [k \in 1..Len(a) |-> R(a[k])]] :
        a \in Arrays(IntensityVals, MaxPoints)}

\* positions as extract_points hands them over, from empty to MaxPoints rows
NormPts ==
    {<<R(c), R(-c), R(2 * c)>> : c \in 0..MaxCoord}
        \cup {<<R(0), R(c), R(0)>> : c \in 1..MaxCoord}

TargetSizes == {R(TargetSize), R(1)}

\* a caller about to apply up to MaxSteps normalizer operations, in any order
NormalizeInputs ==
    {[op |-> "normalize", points |-> p, target_size |-> t] :
        p \in Arrays(NormPts, MaxPoints), t \in TargetSizes}

(***************************************************************************)
(* The files a user can upload.                                            *)
(***************************************************************************)
PointRec(c) ==
    [x |-> c, y |-> 0, z |-> 2 * c, intensity |-> 10 * c,
     red |-> ChannelMax * (c % 2), green |-> 0, blue |-> ChannelMax * ((c + 1) % 2)]

FileRecs == {PointRec(c) : c \in 0..MaxCoord}

DimSets == {{"intensity"}, {"intensity", "red", "green", "blue"}, {},
            {"intensity", "red", "green"}}

FormatId(dims) == IF {"red", "green", "blue"} \subseteq dims THEN 2 ELSE 0

File(ext, read, pts, dims, broken, hdr) ==
    [ext |-> ext, read |-> read, pts |-> pts, dims |-> dims, broken |-> broken, hdr |-> hdr,
     faulty |-> {}, las_version |-> "1.2", point_format_id |-> FormatId(dims)]

\* the accessors get_metadata tries, and the ones a current laspy header answers
Accessors == {"major_version", "version.major", "point_format.id", "point_data_format_id"}
CurrentHeader == {"major_version", "version.major", "point_format.id"}

\* the point records of the files a user uploads
UserRecs == {PointRec(0), PointRec(1)}

UserFiles ==
    {File(".las", "ok", p, d, {}, CurrentHeader) :
        p \in Arrays(UserRecs, MaxFilePoints), d \in DimSets}
    \cup {File(".las", "ok", <<PointRec(1)>>, {"intensity", "red", "green", "blue"},
                {b}, CurrentHeader) : b \in {"red", "intensity"}}
    \cup {File(".laz", "ok", <<PointRec(0)>>, {"intensity"}, {}, h) : h \in SUBSET Accessors}
    \cup {File(e, r, <<>>, {"intensity"}, {}, CurrentHeader) :
            e \in {".las", ".laz"}, r \in {"corrupt", "lazrs_error"}}
    \cup {File(".txt", "corrupt", <<PointRec(0)>>, {"intensity"}, {}, CurrentHeader)}

\* decoded objects handed to get_metadata, under every combination of header accessors
MetadataInputs ==
    {[op |-> "get_metadata", file_path |-> 1, las |-> File(".las", "ok", p, {"intensity"}, {}, h)] :
        p \in Arrays(FileRecs, 1), h \in SUBSET Accessors}

\* decoded objects handed to extract_colors and extract_intensity
ExtractInputs ==
    {[op |-> o, las |-> File(".las", "ok", p, d, b, CurrentHeader)] :
        o \in {"extract_colors", "extract_intensity"},
        p \in Arrays(FileRecs, MaxFilePoints),
        d \in DimSets,
        b \in {{}, {"red"}, {"blue"}, {"intensity"}}}

\* the files load_file can be pointed at, readable or not
DiskFiles ==
    {File(e, r, p, {"intensity"}, {}, CurrentHeader) :
        e \in {".las", ".laz"}, r \in {"ok", "corrupt", "lazrs_error"},
        p \in Arrays(FileRecs, MaxFilePoints)}

\* a path that is missing or holds a file, in an environment with or without lazrs
LoadInputs ==
    {[op |-> "load_file", lazrs_installed |-> i, disk |-> d, file_path |-> 1] :
        i \in BOOLEAN, d \in {<<>>} \cup {<<f>> : f \in DiskFiles}}

\* the files handed to the diagnostics: unreadable, or readable with some header accessors
\* missing (AttributeError) and possibly one raising another exception
DiagFiles ==
    {File(e, r, <<>>, {"intensity"}, {}, CurrentHeader) :
        e \in {".las", ".laz"}, r \in {"corrupt", "lazrs_error"}}
    \cup {[File(".las", "ok", p, {"intensity"}, {}, h) EXCEPT !.faulty = f] :
            p \in Arrays(FileRecs, 1), h \in SUBSET Accessors,
            f \in {{}, {"major_version"}, {"point_format.id"}}}

DiagErrors ==
    {[type |-> "ValueError", mentions |-> m] :
        m \in {{}, {"laz"}, {"zero-size array"}, {"point_data_format_id", "laz"}}}

DiagInputs ==
    {[op |-> "inspect_file_header", lazrs_installed |-> i, disk |-> d, file_path |-> 1] :
        i \in BOOLEAN, d \in {<<>>} \cup {<<f>> : f \in DiagFiles}}
    \cup {[op |-> "diagnose_upload_error", lazrs_installed |-> i, disk |-> d, file_path |-> 1,
            error |-> e] :
            i \in BOOLEAN, d \in {<<>>} \cup {<<f>> : f \in DiagFiles}, e \in DiagErrors}

FileIds == 1..MaxFiles

MaxPointsParams == {None} \cup {Some(m) : m \in (-1)..MaxFilePoints}
ColorBys == {"height", "intensity", "original", "classification"}
DownsampleParams == {None} \cup {Some(d) : d \in {R(0), Rat(1, 10), Rat(1, 2), R(1), Rat(3, 2)}}

\* the query parameters of a points request
PointRequests ==
    [max_points : MaxPointsParams, color_by : ColorBys, downsample : DownsampleParams]

DefaultMaxPoints == 50000

\* the points request with every query parameter left out
DefaultRequest == [max_points |-> Some(DefaultMaxPoints), color_by |-> "height",
                   downsample |-> None]

\* a user holding a file, and the points request that user sends; a user who manages
\* the store also downloads the file as a dataset and deletes files
UserInputs ==
    {[op |-> "file", file |-> f, request |-> q, manages |-> FALSE] :
        f \in UserFiles, q \in PointRequests}
    \cup {[op |-> "file", file |-> f, request |-> DefaultRequest, manages |-> TRUE] :
            f \in UserFiles}

(***************************************************************************)
(* Initial states: a pending core call, or a user holding a file and a     *)
(* points request in front of the empty registry.                          *)
(***************************************************************************)
Init ==
    /\ \/ inp \in DownsampleInputs
       \/ inp \in LimitInputs
       \/ inp \in HeightInputs
       \/ inp \in IntensityInputs
       \/ inp \in BoundsInputs
       \/ inp \in NormalizeInputs
       \/ inp \in MetadataInputs
       \/ inp \in ExtractInputs
       \/ inp \in LoadInputs
       \/ inp \in DiagInputs
       \/ inp \in UserInputs
    /\ ret = None
    /\ file_registry = <<>>
    /\ uploads = <<>>
    /\ response = None
    /\ random_state = 0

(***************************************************************************)
(* The core called directly: the pending call is applied once.             *)
(***************************************************************************)
\* the generator after being advanced n more times
Drawn(n) == IF random_state + n > MaxDraws THEN MaxDraws ELSE random_state + n

CallDownsampleRandom ==
    /\ inp.op = "downsample_random" /\ IsNone(ret)
    /\ \E r \in DownsampleRandom(inp.points, inp.colors, inp.sample_rate) : ret' = Some(r)
    /\ random_state' = Drawn(DownsampleRandomDraws(inp.points, inp.sample_rate))
    /\ UNCHANGED <<inp, file_registry, uploads, response>>

CallLimitPoints ==
    /\ inp.op = "limit_points" /\ IsNone(ret)
    /\ \E r \in LimitPoints(inp.points, inp.colors, inp.max_points) : ret' = Some(r)
    /\ random_state' = Drawn(LimitPointsDraws(inp.points, inp.max_points))
    /\ UNCHANGED <<inp, file_registry, uploads, response>>

CallGenerateHeightColors ==
    /\ inp.op = "generate_height_colors" /\ IsNone(ret)
    /\ ret' = Some(GenerateHeightColors(inp.points))
    /\ UNCHANGED <<inp, file_registry, uploads, response, random_state>>

CallGenerateIntensityColors ==
    /\ inp.op = "generate_intensity_colors" /\ IsNone(ret)
    /\ ret' = Some(GenerateIntensityColors(inp.intensity))
    /\ UNCHANGED <<inp, file_registry, uploads, response, random_state>>

CallCalculateBounds ==
    /\ inp.op = "calculate_bounds" /\ IsNone(ret)
    /\ ret' = Some([st |-> "ok", bounds |-> CalculateBounds(inp.points)])
    /\ UNCHANGED <<inp, file_registry, uploads, response, random_state>>

\* the positions the next normalizer operation receives, and the operations applied so far
Current == IF IsNone(ret) THEN inp.points ELSE Val(ret).points
Steps == IF IsNone(ret) THEN <<>> ELSE Val(ret).steps

CanStep ==
    /\ inp.op = "normalize"
    /\ Len(Steps) < MaxSteps
    /\ IF IsNone(ret) THEN TRUE ELSE Val(ret).st = "ok"

CallCenterPoints ==
    /\ CanStep
    /\ LET r == CenterPoints(Current)
       IN  ret' = Some([st |-> "ok", steps |-> Append(Steps, "center_points"),
                        before |-> Current, points |-> r.points, center |-> r.center])
    /\ UNCHANGED <<inp, file_registry, uploads, response, random_state>>

CallNormalizeScale ==
    /\ CanStep
    /\ ret' = Some(NormalizeScale(Current, inp.target_size)
                    @@ [steps |-> Append(Steps, "normalize_scale"), before |-> Current])
    /\ UNCHANGED <<inp, file_registry, uploads, response, random_state>>

\* loader.py lines 8-9: `import lazrs` at module level ends the import of the loader
ImportLoader ==
    /\ inp.op = "load_file" /\ IsNone(ret)
    /\ ~inp.lazrs_installed
    /\ ret' = Some(Raise("ImportError") @@ [reads |-> 0])
    /\ UNCHANGED <<inp, file_registry, uploads, response, random_state>>

CallLoadFile ==
    /\ inp.op = "load_file" /\ IsNone(ret)
    /\ inp.lazrs_installed
    /\ ret' = Some(LoadFile(inp.disk, inp.file_path))
    /\ UNCHANGED <<inp, file_registry, uploads, response, random_state>>

CallGetMetadata ==
    /\ inp.op = "get_metadata" /\ IsNone(ret)
    /\ ret' = Some(GetMetadata(inp.file_path, inp.las))
    /\ UNCHANGED <<inp, file_registry, uploads, response, random_state>>

CallExtractColors ==
    /\ inp.op = "extract_colors" /\ IsNone(ret)
    /\ ret' = Some([st |-> "ok", colors |-> ExtractColors(inp.las)])
    /\ UNCHANGED <<inp, file_registry, uploads, response, random_state>>

CallExtractIntensity ==
    /\ inp.op = "extract_intensity" /\ IsNone(ret)
    /\ ret' = Some([st |-> "ok", intensity |-> ExtractIntensity(inp.las)])
    /\ UNCHANGED <<inp, file_registry, uploads, response, random_state>>

CallInspectFileHeader ==
    /\ inp.op = "inspect_file_header" /\ IsNone(ret)
    /\ ret' = Some(InspectFileHeader(inp.disk, inp.file_path, inp.lazrs_installed))
    /\ UNCHANGED <<inp, file_registry, uploads, response, random_state>>

CallDiagnoseUploadError ==
    /\ inp.op = "diagnose_upload_error" /\ IsNone(ret)
    /\ ret' = Some(DiagnoseUploadError(inp.disk, inp.file_path, inp.error,
                                       inp.lazrs_installed))
    /\ UNCHANGED <<inp, file_registry, uploads, response, random_state>>

(***************************************************************************)
(* routes.py: the request handlers.                                        *)
(***************************************************************************)
Put(f, k, v) == [i \in DOMAIN f \cup {k} |-> IF i = k THEN v ELSE f[i]]

\* uuid.uuid4(): an id no stored file and no registry entry carries
FreshIds == {i \in FileIds : i \notin DOMAIN uploads /\ i \notin DOMAIN file_registry}

\* upload_file(file)
UploadFile ==
    /\ inp.op = "file"
    /\ IF inp.file.ext \notin {".las", ".laz"}
       THEN /\ response' = Some([handler |-> "upload_file", status |-> 400])
            /\ UNCHANGED <<file_registry, uploads>>
       ELSE \E file_id \in FreshIds :
              LET disk == Put(uploads, file_id, inp.file)
                  loaded == LoadFile(disk, file_id)
                  meta == IF loaded.st = "ok" THEN GetMetadata(file_id, loaded.las)
                          ELSE loaded
              IN  /\ uploads' = disk
                  /\ IF meta.st = "ok"
                     THEN /\ file_registry' =
                                Put(file_registry, file_id,
                                    [original_filename |-> inp.file.ext,
                                     stored_path |-> file_id,
                                     metadata |-> meta.metadata,
                                     source |-> "upload"])
                          /\ response' = Some([handler |-> "upload_file", status |-> 200,
                                               file_id |-> file_id,
                                               metadata |-> meta.metadata])
                     ELSE /\ UNCHANGED file_registry
                          /\ response' = Some([handler |-> "upload_file", status |-> 500])
    /\ UNCHANGED <<inp, ret, random_state>>

\* get_file_info(file_id)
GetFileInfo ==
    /\ inp.op = "file"
    /\ \E file_id \in FileIds :
         response' =
            IF file_id \notin DOMAIN file_registry
            THEN Some([handler |-> "get_file_info", status |-> 404, file_id |-> file_id])
            ELSE Some([handler |-> "get_file_info", status |-> 200, file_id |-> file_id,
                       metadata |-> file_registry[file_id].metadata])
    /\ UNCHANGED <<inp, ret, file_registry, uploads, random_state>>

\* Query(None, ge=0.1, le=1.0)
ValidDownsample(downsample) ==
    IsNone(downsample) \/ (RGe(Val(downsample), Rat(1, 10)) /\ RLe(Val(downsample), R(1)))

\* get_point_data(file_id, max_points, color_by, downsample)
GetPointData ==
    /\ inp.op = "file"
    /\ \E file_id \in FileIds :
         LET max_points == inp.request.max_points
             color_by == inp.request.color_by
             downsample == inp.request.downsample
             request == [file_id |-> file_id, max_points |-> max_points,
                         color_by |-> color_by, downsample |-> downsample]
             \* loads counts the calls of load_file made while answering
             Reply(status, loads) == [handler |-> "get_point_data", status |-> status,
                                      request |-> request, loads |-> loads]
         IN
             IF ~ValidDownsample(downsample)
             THEN response' = Some(Reply(422, 0)) /\ UNCHANGED random_state
             ELSE IF file_id \notin DOMAIN file_registry
             THEN response' = Some(Reply(404, 0)) /\ UNCHANGED random_state
             ELSE LET file_info == file_registry[file_id]
                      loaded == LoadFile(uploads, file_info.stored_path)
                  IN  IF loaded.st = "raise"
                      THEN response' = Some(Reply(500, loaded.reads)) /\ UNCHANGED random_state
                      ELSE /\ \E out \in PointData(loaded.las, file_info.metadata,
                                                   max_points, color_by, downsample) :
                                response' =
                                   IF out.st = "raise" THEN Some(Reply(500, loaded.reads))
                                   ELSE Some([body |-> out] @@ Reply(200, loaded.reads))
                           /\ random_state' = Drawn(PointDataDraws(loaded.las, max_points,
                                                                   color_by, downsample))
    /\ UNCHANGED <<inp, ret, file_registry, uploads>>

Remove(f, k) == IF DOMAIN f \subseteq {k} THEN <<>> ELSE [i \in DOMAIN f \ {k} |-> f[i]]

\* delete_file(file_id)
DeleteFile ==
    /\ inp.op = "file" /\ inp.manages
    /\ \E file_id \in FileIds :
         IF file_id \notin DOMAIN file_registry
         THEN /\ response' = Some([handler |-> "delete_file", status |-> 404,
                                   file_id |-> file_id])
              /\ UNCHANGED <<file_registry, uploads>>
         ELSE LET file_info == file_registry[file_id]
                  file_path == file_info.stored_path
              IN  /\ uploads' = IF file_path \in DOMAIN uploads THEN Remove(uploads, file_path)
                                ELSE uploads
                  /\ file_registry' = Remove(file_registry, file_id)
                  /\ response' = Some([handler |-> "delete_file", status |-> 200,
                                       file_id |-> file_id])
    /\ UNCHANGED <<inp, ret, random_state>>

\* the format a dataset is requested in: the one the remote serves the user's file in
OutputFormat(file) ==
    IF file.ext = ".las" THEN "LAS" ELSE IF file.ext = ".laz" THEN "LAZ" ELSE "XYZ"

\* f".{output_format.lower()}"
FileExtension(output_format) ==
    IF output_format = "LAS" THEN ".las" ELSE IF output_format = "LAZ" THEN ".laz" ELSE ".xyz"

DatasetId == "OTLAS.1"
BBox == [south |-> 0, north |-> 1, west |-> 0, east |-> 1]

\* download_dataset(dataset_id, bbox, output_format): the remote answers with the
\* user's file, or the request to it fails
DownloadDataset ==
    /\ inp.op = "file" /\ inp.manages
    /\ \E fetched \in BOOLEAN :
         IF ~fetched
         THEN /\ response' = Some([handler |-> "download_dataset", status |-> 500])
              /\ UNCHANGED <<file_registry, uploads>>
         ELSE \E file_id \in FreshIds :
                LET output_format == OutputFormat(inp.file)
                    file_extension == FileExtension(output_format)
                    disk == Put(uploads, file_id, [inp.file EXCEPT !.ext = file_extension])
                    loaded == LoadFile(disk, file_id)
                    meta == IF loaded.st = "ok" THEN GetMetadata(file_id, loaded.las)
                            ELSE loaded
                IN  /\ uploads' = disk
                    /\ IF meta.st = "ok"
                       THEN /\ file_registry' =
                                  Put(file_registry, file_id,
                                      [original_filename |-> file_extension,
                                       stored_path |-> file_id,
                                       metadata |-> meta.metadata,
                                       source |-> "opentopography",
                                       dataset_id |-> DatasetId,
                                       bbox |-> BBox])
                            /\ response' = Some([handler |-> "download_dataset",
                                                 status |-> 200, file_id |-> file_id,
                                                 metadata |-> meta.metadata])
                       ELSE /\ UNCHANGED file_registry
                            /\ response' = Some([handler |-> "download_dataset",
                                                 status |-> 500])
    /\ UNCHANGED <<inp, ret, random_state>>

Next ==
    \/ CallDownsampleRandom
    \/ CallLimitPoints
    \/ CallGenerateHeightColors
    \/ CallGenerateIntensityColors
    \/ CallCalculateBounds
    \/ CallCenterPoints
    \/ CallNormalizeScale
    \/ ImportLoader
    \/ CallLoadFile
    \/ CallGetMetadata
    \/ CallExtractColors
    \/ CallExtractIntensity
    \/ CallInspectFileHeader
    \/ CallDiagnoseUploadError
    \/ UploadFile
    \/ GetFileInfo
    \/ GetPointData
    \/ DeleteFile
    \/ DownloadDataset

Spec == Init /\ [][Next]_vars

Returned(op) == inp.op = op /\ ~IsNone(ret)
Ok(op) == Returned(op) /\ Val(ret).st = "ok"

(***************************************************************************)
(* Properties.                                                             *)
(***************************************************************************)
Out == Val(ret)

\* every output row k is some input row i, in both arrays at once
RowsAligned(out_a, out_b, in_a, in_b) ==
    /\ Len(out_a) = Len(out_b)
    /\ \A k \in 1..Len(out_a) :
          \E i \in 1..Len(in_a) : out_a[k] = in_a[i] /\ out_b[k] = in_b[i]

(* C1: after downsample_random with a rate below 1, every output position  *)
(* and its colour come from one and the same input index; without input    *)
(* colours the returned colours are None.                                  *)
C1_DownsampleKeepsAlignment ==
    (Ok("downsample_random") /\ RLt(inp.sample_rate, R(1))) =>
        IF IsNone(inp.colors) THEN IsNone(Out.colors)
        ELSE /\ ~IsNone(Out.colors)
             /\ RowsAligned(Out.points, Val(Out.colors), inp.points, Val(inp.colors))

C1_Witness ==
    /\ Ok("downsample_random") /\ RLt(inp.sample_rate, R(1))
    /\ ~IsNone(inp.colors)
    /\ Len(Out.points) >= 1 /\ Len(Out.points) < Len(inp.points)
    /\ \E i, j \in 1..Len(inp.points) :
          inp.points[i] # inp.points[j] /\ Val(inp.colors)[i] # Val(inp.colors)[j]

\* the body of a successful points response, and the arrays of the file it was read from
IsPoints200 ==
    /\ ~IsNone(response)
    /\ Val(response).handler = "get_point_data"
    /\ Val(response).status = 200
Body == Val(response).body
Request == Val(response).request

(* C2: with the intensity colour scheme, when the cloud was reduced, the    *)
(* intensity used for output point k is the intensity of the original      *)
(* point whose position is output point k.                                 *)
C2_IntensityFollowsReduction ==
    (/\ IsPoints200
     /\ Request.color_by = "intensity"
     /\ ~IsNone(ExtractIntensity(inp.file))
     /\ Len(Body.reduced) < Len(inp.file.pts)) =>
        /\ ~IsNone(Body.sampled_intensity)
        /\ RowsAligned(Body.reduced, Val(Body.sampled_intensity),
                       ExtractPoints(inp.file), Val(ExtractIntensity(inp.file)))

(* C3: limit_points returns at most max_points points and returns its      *)
(* input unchanged when N <= max_points; a points response produced with   *)
(* max_points given carries at most max_points points.                     *)
C3_LimitBoundsTheCount ==
    /\ Returned("limit_points") =>
          /\ Out.st = "ok" => Len(Out.points) <= inp.max_points
          /\ Len(inp.points) <= inp.max_points =>
                Out.st = "ok" /\ Out.points = inp.points /\ Out.colors = inp.colors
    /\ (IsPoints200 /\ ~IsNone(Request.max_points)) =>
          Len(Body.points) <= Val(Request.max_points)

C3_Witness ==
    /\ Ok("limit_points")
    /\ inp.max_points >= 1
    /\ Len(inp.points) > inp.max_points
    /\ Len(Out.points) = inp.max_points

(* C4: downsample_random with sample_rate >= 1.0 returns exactly its input *)
(* points and colours, the empty cloud included.                           *)
C4_FullRateIsIdentity ==
    (Returned("downsample_random") /\ RGe(inp.sample_rate, R(1))) =>
        Out.st = "ok" /\ Out.points = inp.points /\ Out.colors = inp.colors

C4_Witness ==
    /\ Ok("downsample_random")
    /\ RLt(R(1), inp.sample_rate)
    /\ Len(inp.points) >= 2 /\ ~IsNone(inp.colors)

(* C5: downsample_random with a rate <= 0 fails with InvalidParameter and  *)
(* returns no cloud.                                                       *)
C5_NonPositiveRateRejected ==
    (Returned("downsample_random") /\ RLe(inp.sample_rate, R(0))) =>
        Out.st = "raise" /\ Out.exc = "InvalidParameter"

(* C6: limit_points with max_points = 0 raises nothing and returns an      *)
(* empty point array, and an empty colour array when colours are present,  *)
(* for every N >= 0.                                                       *)
C6_LimitToZeroIsEmpty ==
    (Returned("limit_points") /\ inp.max_points = 0) =>
        /\ Out.st = "ok"
        /\ Out.points = <<>>
        /\ IF IsNone(inp.colors) THEN IsNone(Out.colors) ELSE Out.colors = Some(<<>>)

C6_Witness ==
    /\ Ok("limit_points") /\ inp.max_points = 0
    /\ Len(inp.points) >= 2 /\ ~IsNone(inp.colors)

(* C7: on an empty cloud the height scheme and the intensity scheme both   *)
(* return an empty colour array without raising.                           *)
C7_EmptyCloudIsColoured ==
    /\ (Returned("generate_height_colors") /\ Len(inp.points) = 0) =>
          Out.st = "ok" /\ Out.colors = <<>>
    /\ (Returned("generate_intensity_colors") /\ Len(inp.intensity) = 0) =>
          Out.st = "ok" /\ Out.colors = <<>>

(* C8: for a readable file with zero point records get_metadata succeeds   *)
(* and reports point_count = 0, has_colors = false and has_intensity =     *)
(* false, whatever attributes the point format carries.                    *)
C8_EmptyFileMetadata ==
    (/\ ~IsNone(response)
     /\ Val(response).handler = "upload_file"
     /\ Val(response).status # 400
     /\ inp.file.read = "ok"
     /\ Len(inp.file.pts) = 0) =>
        /\ Val(response).status = 200
        /\ Val(response).metadata.point_count = 0
        /\ ~Val(response).metadata.has_colors
        /\ ~Val(response).metadata.has_intensity

BoundsMin(b, a) == CASE a = 1 -> b.min_x [] a = 2 -> b.min_y [] a = 3 -> b.min_z
BoundsMax(b, a) == CASE a = 1 -> b.max_x [] a = 2 -> b.max_y [] a = 3 -> b.max_z

(* C9: calculate_bounds gives, on each axis of a non-empty cloud, the true *)
(* minimum and maximum (so min <= max), and six zeros for the empty cloud. *)
C9_BoundsAreExact ==
    Returned("calculate_bounds") =>
        \A a \in 1..3 :
            LET lo == BoundsMin(Out.bounds, a)
                hi == BoundsMax(Out.bounds, a)
                n == Len(inp.points)
            IN  IF n = 0 THEN lo = R(0) /\ hi = R(0)
                ELSE /\ RLe(lo, hi)
                     /\ \A k \in 1..n : RLe(lo, inp.points[k][a]) /\ RLe(inp.points[k][a], hi)
                     /\ \E k \in 1..n : inp.points[k][a] = lo
                     /\ \E k \in 1..n : inp.points[k][a] = hi

C9_Witness ==
    /\ Returned("calculate_bounds")
    /\ Len(inp.points) >= 2
    /\ RLt(Out.bounds.min_x, R(0))
    /\ RLt(R(0), Out.bounds.max_z)

Blue == <<R(0), R(0), R(1)>>
Cyan == <<R(0), R(1), R(1)>>
Yellow == <<R(1), R(1), R(0)>>
Red == <<R(1), R(0), R(0)>>

\* the point at fraction f of the way from colour c1 to colour c2
Lerp(c1, c2, f) == [ch \in 1..3 |-> RAdd(c1[ch], RMul(f, RSub(c2[ch], c1[ch])))]

\* the three-segment gradient at t in [0, 1]
Gradient(t) ==
    IF RLt(t, Rat(33, 100)) THEN Lerp(Blue, Cyan, RDiv(t, Rat(33, 100)))
    ELSE IF RLt(t, Rat(67, 100))
         THEN Lerp(Cyan, Yellow, RDiv(RSub(t, Rat(33, 100)), Rat(34, 100)))
    ELSE Lerp(Yellow, Red, RDiv(RSub(t, Rat(67, 100)), Rat(33, 100)))

HeightT(k) ==
    LET z == Column(inp.points, 3)
    IN  RDiv(RSub(z[k], RMinOf(z)), RSub(RMaxOf(z), RMinOf(z)))

(* C10: height colours: a cloud of constant Z is gray (0.5,0.5,0.5)        *)
(* throughout; otherwise each point gets the colour of the blue-cyan-      *)
(* yellow-red gradient at t = (z - min_z)/(max_z - min_z): blue at t = 0,  *)
(* cyan at 0.33, yellow at 0.67, red at 1, every channel within [0,1].     *)
C10_HeightGradient ==
    (Returned("generate_height_colors") /\ Len(inp.points) > 0) =>
        LET z == Column(inp.points, 3)
            n == Len(inp.points)
        IN  /\ Out.st = "ok"
            /\ Len(Out.colors) = n
            /\ \A k \in 1..n :
                 IF RMinOf(z) = RMaxOf(z) THEN Out.colors[k] = <<Rat(1, 2), Rat(1, 2), Rat(1, 2)>>
                 ELSE /\ Out.colors[k] = Gradient(HeightT(k))
                      /\ HeightT(k) = R(0) => Out.colors[k] = Blue
                      /\ HeightT(k) = Rat(33, 100) => Out.colors[k] = Cyan
                      /\ HeightT(k) = Rat(67, 100) => Out.colors[k] = Yellow
                      /\ HeightT(k) = R(1) => Out.colors[k] = Red
                      /\ \A ch \in 1..3 :
                            RLe(R(0), Out.colors[k][ch]) /\ RLe(Out.colors[k][ch], R(1))

C10_Witness ==
    /\ Ok("generate_height_colors")
    /\ Len(inp.points) = 3
    /\ \E k \in 1..3 : Out.colors[k] = Blue
    /\ \E k \in 1..3 : Out.colors[k] = Red
    /\ \E k \in 1..3 : HeightT(k) = Rat(1, 2) /\ Out.colors[k] = <<Rat(1, 2), R(1), Rat(1, 2)>>

(* C11: intensity colours: one gray triple per input value; when every     *)
(* value is equal each triple is (0.5,0.5,0.5); otherwise r = g = b =      *)
(* (i - min)/(max - min), so the minimum maps to 0, the maximum to 1 and   *)
(* every channel lies within [0,1].                                        *)
C11_IntensityGray ==
    Returned("generate_intensity_colors") =>
        LET i == inp.intensity
            n == Len(inp.intensity)
        IN  /\ Out.st = "ok"
            /\ Len(Out.colors) = n
            /\ \A k \in 1..n :
                 LET c == Out.colors[k]
                 IN  /\ Len(c) = 3 /\ c[1] = c[2] /\ c[2] = c[3]
                     /\ IF \A j \in 1..n : i[j] = i[1] THEN c[1] = Rat(1, 2)
                        ELSE /\ RMul(c[1], RSub(RMaxOf(i), RMinOf(i))) = RSub(i[k], RMinOf(i))
                             /\ i[k] = RMinOf(i) => c[1] = R(0)
                             /\ i[k] = RMaxOf(i) => c[1] = R(1)
                             /\ RLe(R(0), c[1]) /\ RLe(c[1], R(1))

C11_Witness ==
    /\ Ok("generate_intensity_colors")
    /\ Len(inp.intensity) = 3
    /\ RMinOf(inp.intensity) = R(1)
    /\ \E k \in 1..3 : Out.colors[k] = <<R(0), R(0), R(0)>>
    /\ \E k \in 1..3 : Out.colors[k] = <<R(1), R(1), R(1)>>

\* the operation applied last by the normalizer's caller
LastStep == Out.steps[Len(Out.steps)]

\* the largest per-axis extent of a non-empty cloud
MaxExtent(p) ==
    LET extent(a) == RSub(RMaxOf(Column(p, a)), RMinOf(Column(p, a)))
    IN  CHOOSE e \in {extent(a) : a \in 1..3} : \A a \in 1..3 : RLe(extent(a), e)

(* C12: normalize_scale on a non-empty cloud: when all points coincide     *)
(* (extent 0) the input comes back unchanged with scale factor 1.0;        *)
(* otherwise every coordinate is multiplied by target/current extent, so   *)
(* the largest per-axis extent of the result equals the target size.       *)
C12_ScaleToTarget ==
    (Returned("normalize") /\ LastStep = "normalize_scale" /\ Len(Out.before) > 0) =>
        /\ Out.st = "ok"
        /\ Len(Out.points) = Len(Out.before)
        /\ IF \A k \in 1..Len(Out.before) : Out.before[k] = Out.before[1]
           THEN Out.points = Out.before /\ Out.scale_factor = R(1)
           ELSE /\ RMul(Out.scale_factor, MaxExtent(Out.before)) = inp.target_size
                /\ \A k \in 1..Len(Out.before) : \A a \in 1..3 :
                      Out.points[k][a] = RMul(Out.before[k][a], Out.scale_factor)
                /\ MaxExtent(Out.points) = inp.target_size

C12_Witness ==
    /\ Ok("normalize")
    /\ Out.steps = <<"center_points", "normalize_scale">>
    /\ inp.target_size = R(10)
    /\ Len(Out.points) = 3
    /\ Out.scale_factor = R(5)
    /\ RSub(RMaxOf(Column(Out.points, 3)), RMinOf(Column(Out.points, 3))) = R(10)
    /\ Out.points # Out.before

(* C13: center_points returns (points - mean, mean) with the per-axis      *)
(* arithmetic mean of the input: adding the returned offset back to every  *)
(* returned point reproduces the input, and the returned points have mean  *)
(* zero on every axis.                                                     *)
C13_CenterOnMean ==
    (Returned("normalize") /\ LastStep = "center_points") =>
        LET n == Len(Out.before)
        IN  /\ Out.st = "ok"
            /\ Len(Out.points) = n
            /\ \A k \in 1..n : \A a \in 1..3 :
                  RAdd(Out.points[k][a], Out.center[a]) = Out.before[k][a]
            /\ n > 0 => \A a \in 1..3 :
                  /\ RMul(Out.center[a], R(n)) = RSum(Column(Out.before, a))
                  /\ RDiv(RSum(Column(Out.points, a)), R(n)) = R(0)

C13_Witness ==
    /\ Ok("normalize")
    /\ Out.steps = <<"center_points">>
    /\ Len(Out.points) = 3
    /\ Out.center = <<Rat(1, 3), Rat(-1, 3), Rat(2, 3)>>
    /\ Out.points[1] # Out.points[2]

(* C14: for every point count N >= 0, N = 0 included, any sequence of      *)
(* center_points and normalize_scale applied to the extracted positions    *)
(* completes and leaves exactly N positions.                               *)
C14_NormalizerKeepsCount ==
    Returned("normalize") => Out.st = "ok" /\ Len(Out.points) = Len(inp.points)

\* the last response is a successful reply of the given handler
Is200(handler) ==
    /\ inp.op = "file" /\ ~IsNone(response)
    /\ Val(response).handler = handler /\ Val(response).status = 200

(* C15: the metadata is computed once, at upload, and never changed: after *)
(* any sequence of requests the metadata kept in the registry, the one the *)
(* info query returns and the one inside a points response equal the       *)
(* record computed at upload, and point_count is still the full count of   *)
(* the file, however few points the response carries.                      *)
C15_MetadataImmutable ==
    inp.op = "file" =>
        LET AtUpload(file_id) == GetMetadata(file_id, inp.file).metadata
        IN  /\ \A file_id \in DOMAIN file_registry :
                  /\ file_registry[file_id].metadata = AtUpload(file_id)
                  /\ file_registry[file_id].metadata.point_count = Len(inp.file.pts)
            /\ Is200("get_file_info") =>
                  Val(response).metadata = AtUpload(Val(response).file_id)
            /\ Is200("get_point_data") =>
                  /\ Body.metadata = AtUpload(Request.file_id)
                  /\ Body.metadata.point_count = Len(inp.file.pts)

C15_Witness ==
    /\ Is200("get_point_data")
    /\ Body.metadata.point_count = 2
    /\ Len(Body.points) = 1
    /\ Body.metadata = file_registry[Request.file_id].metadata

(* C16: when neither the version accessors nor the point-format accessors  *)
(* of the header resolve, get_metadata still returns a metadata record     *)
(* (carrying a sentinel value) instead of failing.                         *)
C16_MetadataSentinel ==
    (Returned("get_metadata") /\ inp.las.hdr = {}) =>
        /\ Out.st = "ok"
        /\ Out.metadata.point_count = Len(inp.las.pts)

(* C17: extract_colors and extract_intensity each return either nothing or *)
(* a full-length array: N rows, and for colours three channels per row,    *)
(* each the raw value divided by 65535 and so within [0,1].  When one of   *)
(* the three colour channels is absent, or reading an attribute raises,    *)
(* the result is nothing: never an exception, never a partial array.       *)
C17_ExtractAllOrNothing ==
    /\ Returned("extract_colors") =>
          /\ Out.st = "ok"
          /\ \/ IsNone(Out.colors)
             \/ /\ Len(Val(Out.colors)) = Len(inp.las.pts)
                /\ \A k \in 1..Len(inp.las.pts) :
                      LET row == Val(Out.colors)[k]
                          raw == <<inp.las.pts[k].red, inp.las.pts[k].green, inp.las.pts[k].blue>>
                      IN  /\ Len(row) = 3
                          /\ \A c \in 1..3 :
                                /\ RMul(row[c], R(65535)) = R(raw[c])
                                /\ RLe(R(0), row[c]) /\ RLe(row[c], R(1))
          /\ ({"red", "green", "blue"} \ inp.las.dims # {}
                \/ {"red", "green", "blue"} \cap inp.las.broken # {}) => IsNone(Out.colors)
    /\ Returned("extract_intensity") =>
          /\ Out.st = "ok"
          /\ IsNone(Out.intensity) \/ Len(Val(Out.intensity)) = Len(inp.las.pts)
          /\ ("intensity" \notin inp.las.dims \/ "intensity" \in inp.las.broken)
                => IsNone(Out.intensity)

C17_Witness ==
    /\ Ok("extract_colors")
    /\ Len(inp.las.pts) = 2
    /\ inp.las.dims = {"intensity", "red", "green", "blue"}
    /\ inp.las.broken = {"blue"}
    /\ IsNone(Out.colors)

\* the path handed to load_file holds a file
OnDisk == inp.file_path \in DOMAIN inp.disk
Content == inp.disk[inp.file_path]

(* C19: load_file, once called, never returns a result for an input it     *)
(* could not decode: a missing path raises the not-found error before any  *)
(* read is attempted, a failure of the underlying read aborts the call     *)
(* with a format error carrying the file extension and size, and a result  *)
(* is returned only for a file that was read, as the decoded file itself.  *)
C19_NoResultWithoutDecode ==
    (Returned("load_file") /\ inp.lazrs_installed) =>
        /\ ~OnDisk => Out.st = "raise" /\ Out.exc = "FileNotFoundError" /\ Out.reads = 0
        /\ (OnDisk /\ Content.read # "ok") =>
              /\ Out.st = "raise" /\ Out.exc = "ValueError"
              /\ Out.file_extension = Content.ext
              /\ Out.file_size_bytes = FileSize(Content)
        /\ Out.st = "ok" => OnDisk /\ Content.read = "ok" /\ Out.las = Content

C19_Witness ==
    /\ Returned("load_file")
    /\ OnDisk /\ Content.read = "corrupt" /\ Len(Content.pts) = 2
    /\ Out.st = "raise" /\ Out.exc = "ValueError"
    /\ Out.file_extension = ".laz" /\ Out.file_size_bytes = 3

(* C20: the absence of the compression backend is a recoverable outcome    *)
(* reported on its own: loading a compressed file without the backend      *)
(* fails that call with the compression error of load_file, and a read     *)
(* failure with the backend present is never reported as a compression     *)
(* problem.                                                                *)
C20_CompressionSeparate ==
    (Returned("load_file") /\ OnDisk) =>
        /\ (~inp.lazrs_installed /\ Content.ext = ".laz") =>
              /\ Out.st = "raise" /\ Out.exc = "ValueError"
              /\ Out.error_msg = "LAZ compression error"
        /\ (inp.lazrs_installed /\ Content.read # "ok") =>
              /\ Out.st = "raise" /\ Out.exc = "ValueError"
              /\ Out.error_msg # "LAZ compression error"

\* the inspection part of the report the diagnostics returned
Inspection ==
    IF inp.op = "inspect_file_header" THEN Out.report ELSE Out.report.file_analysis

\* the probes of the inspection that read the header directly
DirectMethods ==
    {"major_version", "minor_version", "version.major", "version.minor",
     "point_format.id", "point_format"}

IsPointsReply ==
    inp.op = "file" /\ ~IsNone(response) /\ Val(response).handler = "get_point_data"

(* C21: a points request with an invalid parameter (downsample outside     *)
(* [0.1, 1.0], a negative max_points, or a color_by other than height,     *)
(* intensity or original) is rejected as an invalid parameter before the   *)
(* file is loaded: no load happens for such a request (a request naming    *)
(* an unknown file aside, which is answered not-found).                    *)
C21_InvalidRejectedEarly ==
    (/\ IsPointsReply
     /\ Val(response).status # 404
     /\ \/ ~ValidDownsample(Request.downsample)
        \/ ~IsNone(Request.max_points) /\ Val(Request.max_points) < 0
        \/ Request.color_by \notin {"height", "intensity", "original"})
        => Val(response).status = 422 /\ Val(response).loads = 0

\* out is in_seq gathered at strictly increasing positions
IsSubsequence(out, in_seq) ==
    \E f \in [1..Len(out) -> 1..Len(in_seq)] :
        /\ \A i, j \in 1..Len(out) : i < j => f[i] < f[j]
        /\ \A k \in 1..Len(out) : out[k] = in_seq[f[k]]

(* C23: downsample_random with a rate inside (0,1) returns exactly         *)
(* floor(N * rate) points, taken at distinct indices in ascending order:   *)
(* the output is a subsequence of the input, in the input's order.         *)
C23_SortedSubsequence ==
    (/\ Returned("downsample_random")
     /\ RLt(R(0), inp.sample_rate) /\ RLt(inp.sample_rate, R(1))) =>
        LET exact == RMul(R(Len(inp.points)), inp.sample_rate)
            m == Len(Out.points)
        IN  /\ Out.st = "ok"
            /\ RLe(R(m), exact) /\ RLt(exact, R(m + 1))
            /\ IsSubsequence(Out.points, inp.points)

C23_Witness ==
    /\ Ok("downsample_random")
    /\ inp.sample_rate = Rat(2, 3)
    /\ Len(inp.points) = 3 /\ inp.points[1] # inp.points[2] /\ inp.points[2] = inp.points[3]
    /\ Out.points = <<inp.points[1], inp.points[3]>>

\* accessor a is evaluated before accessor b, or b is not evaluated at all
Before(probed, a, b) ==
    \A j \in 1..Len(probed) : probed[j] = b => \E i \in 1..(j - 1) : probed[i] = a

Offsets == {<<R(a), R(b), R(a + b)>> : a, b \in (-1)..MaxCoord}
Shift(points, c) == [k \in 1..Len(points) |-> [a \in 1..3 |-> RAdd(points[k][a], c[a])]]

\* routes.py lines 223-224 on a cloud: center_points, then normalize_scale
Normalized(points, target_size) == NormalizeScale(CenterPoints(points).points, target_size)

(* C25: the normalization of the pipeline, center_points then              *)
(* normalize_scale, does not depend on where the cloud lies: for a         *)
(* non-empty cloud P and any offset c, P and P + c give the same scale     *)
(* factor and the same output coordinates; and the points of a points      *)
(* response are the reduced points centred first and rescaled second.      *)
C25_TranslationInvariant ==
    /\ (/\ Returned("normalize")
        /\ Out.steps = <<"center_points", "normalize_scale">>
        /\ Len(inp.points) > 0) =>
          /\ Out.st = "ok"
          /\ \A c \in Offsets :
                LET moved == Normalized(Shift(inp.points, c), inp.target_size)
                IN  /\ moved.st = "ok"
                    /\ moved.scale_factor = Out.scale_factor
                    /\ moved.points = Out.points
    /\ Is200("get_point_data") =>
          /\ Body.points = Normalized(Body.reduced, R(10)).points
          /\ \A c \in Offsets :
                Normalized(Shift(Body.reduced, c), R(10)).points = Body.points

C25_Witness ==
    /\ Ok("normalize")
    /\ Out.steps = <<"center_points", "normalize_scale">>
    /\ Len(inp.points) = 3
    /\ Out.scale_factor = Rat(1, 2)
    /\ \E c \in Offsets :
          /\ Shift(inp.points, c) # inp.points
          /\ NormalizeScale(Shift(inp.points, c), inp.target_size).points # Out.points
          /\ Normalized(Shift(inp.points, c), inp.target_size).points = Out.points

(* C26: every successful points response, whatever downsample, max_points  *)
(* and color_by were and whichever attributes the file has, carries a      *)
(* colours list with exactly as many entries as its points list.           *)
C26_ColoursMatchPoints ==
    Is200("get_point_data") =>
        /\ ~IsNone(Body.colors)
        /\ Len(Val(Body.colors)) = Len(Body.points)
        /\ \A k \in 1..Len(Body.points) : Len(Val(Body.colors)[k]) = 3

C26_Witness ==
    /\ Is200("get_point_data")
    /\ Request.color_by = "intensity" /\ ~IsNone(Body.sampled_intensity)
    /\ Request.max_points = Some(1)
    /\ Len(inp.file.pts) = 2
    /\ Len(Body.points) = 1 /\ Len(Val(Body.colors)) = 1

\* the request asks for a scheme the file cannot serve, or for an unknown one
FallsBack(color_by) ==
    \/ color_by = "intensity" /\ IsNone(ExtractIntensity(inp.file))
    \/ color_by = "original" /\ IsNone(ExtractColors(inp.file))
    \/ color_by \notin {"height", "intensity", "original"}

(* C27: the colour scheme falls back to height colours instead of failing: *)
(* with color_by 'intensity' on a file without intensity, 'original' on a  *)
(* file without colours, or an unrecognised string, the response carries   *)
(* the height colours of the reduced points, and a plain request for a     *)
(* file with points succeeds; 'original' on a file with colours returns    *)
(* the source colours of the retained points unchanged.                    *)
C27_FallbackToHeight ==
    /\ (Is200("get_point_data") /\ FallsBack(Request.color_by)) =>
          Body.colors = Some(GenerateHeightColors(Body.reduced).colors)
    /\ (/\ IsPointsReply /\ FallsBack(Request.color_by)
        /\ Val(response).status # 404
        /\ IsNone(Request.max_points) /\ IsNone(Request.downsample)
        /\ Len(inp.file.pts) > 0) => Val(response).status = 200
    /\ (/\ Is200("get_point_data") /\ Request.color_by = "original"
        /\ ~IsNone(ExtractColors(inp.file))) =>
          /\ RowsAligned(Body.reduced, Val(Body.colors),
                         ExtractPoints(inp.file), Val(ExtractColors(inp.file)))
          /\ Len(Body.reduced) = Len(inp.file.pts) =>
                Body.colors = ExtractColors(inp.file)

C27_Witness ==
    /\ Is200("get_point_data")
    /\ Request.color_by = "original"
    /\ inp.file.dims = {"intensity", "red", "green"}
    /\ Len(Body.reduced) = 2
    /\ Val(Body.colors)[1] # Val(Body.colors)[2]

(***************************************************************************)
(* C22: no core operation reads or writes state shared between requests:   *)
(* whatever calls and requests were served, the process-wide state they    *)
(* could all reach, numpy's global generator, is as it was at start.       *)
(***************************************************************************)
C22_NoSharedState == random_state = 0

\* the paths the registry entries name
StoredPaths == {file_registry[i].stored_path : i \in DOMAIN file_registry}

(***************************************************************************)
(* C28: after any sequence of uploads, dataset downloads and deletes, the  *)
(* failing ones included, the registry and the upload directory agree:     *)
(* the stored files are exactly the files the registry entries name.       *)
(***************************************************************************)
C28_RegistryMatchesStore == DOMAIN uploads = StoredPaths

====
